---------------------------- MODULE Spec2Model ----------------------------
(***************************************************************************)
(* GtkStatusbar (gtk/gtkstatusbar.c) and GtkColorScale                     *)
(* (gtk/gtkcolorscale.c) as state machines: Spec is the message stack of   *)
(* a statusbar, SpecContext its context ids, SpecScale the trough of a     *)
(* colour scale.  The three touch disjoint fields.                         *)
(*                                                                         *)
(* A guint is 32 bits wide.  TLC's integers stop at 2^31-1, so a guint is  *)
(* kept as the pair <<high 16 bits, low 16 bits>>; the only operations the *)
(* code applies to one are ++, == and > 0.                                 *)
(*                                                                         *)
(* A C string argument is <<>> for NULL and <<s>> for the string s.        *)
(***************************************************************************)
EXTENDS Integers, Sequences, FiniteSets, TLC

VARIABLES
  messages,        \* priv->messages: the stack, top first (GSList, prepend)
  seq_message_id,  \* priv->seq_message_id
  label,           \* the text of priv->label
  keys,            \* priv->keys, newest first
  seq_context_id,  \* priv->seq_context_id
  object_data,     \* the statusbar's GObject data: key string -> guint
  call,            \* the last API call: its name, arguments and return value
  pre,             \* the statusbar's fields as they were when that call began
  emitted,         \* the signals that call emitted, in order
  ids_returned,    \* what gtk_statusbar_get_context_id was given and returned,
                   \* call by call
  scale_type,      \* scale->priv->type
  color,           \* scale->priv->color
  orientation,     \* the scale's GtkOrientable orientation
  direction,       \* the scale's text direction
  snapshot,        \* the nodes of the GtkSnapshot last drawn to
  trough           \* the last gtk_color_scale_snapshot_trough call: its
                   \* arguments and the nodes the snapshot held before it

sbvars == <<messages, seq_message_id, label, keys, seq_context_id,
            object_data, call, pre, emitted, ids_returned>>

scvars == <<scale_type, color, orientation, direction, snapshot, trough>>

vars == <<sbvars, scvars>>

-----------------------------------------------------------------------------
(* guint *)

HALF == 2^16

U(n) == <<n \div HALF, n % HALF>>

UINT_ZERO == U(0)

\* u++ yields u and leaves UIntInc(u) behind
UIntInc(u) ==
  IF u[2] = HALF - 1
    THEN <<(u[1] + 1) % HALF, 0>>
    ELSE <<u[1], u[2] + 1>>

UIntPositive(u) == u # UINT_ZERO

NULL == <<>>

Str(s) == <<s>>

-----------------------------------------------------------------------------
(* bounds of the model *)

MaxMessages == 3      \* gtk_statusbar_push is called while the stack is shorter
MaxPushes == 3        \* ... and while seq_message_id has not passed this value
MaxContextCalls == 4  \* gtk_statusbar_get_context_id is called this often

Texts == {"", "a"}

TextArgs == {NULL} \cup {Str(t) : t \in Texts}

\* context ids need not come from gtk_statusbar_get_context_id
ContextIds == {U(0), U(1)}

Descriptions == {"", "a", "b"}

DescriptionArgs == {NULL} \cup {Str(d) : d \in Descriptions}

\* seq_message_id counts the pushes of the statusbar's whole life.  A statusbar
\* that has pushed and popped 2^32-3 messages is as constructed but for
\* seq_message_id = 2^32-2.
SeqMessageIdStarts == {U(1), <<HALF - 1, HALF - 2>>}

-----------------------------------------------------------------------------
(* GSList *)

\* the new link put at the end of the list
g_slist_prepend_AtEnd(list, data) == Append(list, data)

g_slist_prepend(list, data) == <<data>> \o list

\* the list without its i-th link
g_slist_remove_link(list, i) ==
  SubSeq(list, 1, i - 1) \o SubSeq(list, i + 1, Len(list))

-----------------------------------------------------------------------------
(* GObject data, GLib strings *)

\* the second string left out
g_strconcat_FirstOnly(string1, string2) == string1

g_strconcat(string1, string2) == string1 \o string2

\* a lookup that never finds the key
g_object_get_data_NotFound(data, key) == UINT_ZERO

\* the object's data is a set of <<key, guint>>; a key that is not set reads
\* as NULL, which GPOINTER_TO_UINT turns into 0
g_object_get_data(data, key) ==
  IF \E d \in data : d[1] = key
    THEN (CHOOSE d \in data : d[1] = key)[2]
    ELSE UINT_ZERO

\* setting a key to NULL (GUINT_TO_POINTER (0)) removes it
g_object_set_data_full(data, key, value) ==
  {d \in data : d[1] # key} \cup
  (IF value = UINT_ZERO THEN {} ELSE {<<key, value>>})

-----------------------------------------------------------------------------
(* signals *)

Emission(signal, context_id, text, stack) ==
  [signal |-> signal, context_id |-> context_id, text |-> text, stack |-> stack]

\* gtk_statusbar_update, the class handler of text-pushed and text-popped:
\* the label's new text
gtk_statusbar_update(context_id, text) ==
  IF text = NULL THEN "" ELSE text[1]

-----------------------------------------------------------------------------
(* messages *)

gtk_statusbar_msg_create(context_id, text) ==
  [text |-> text[1], context_id |-> context_id, message_id |-> seq_message_id]

\* the loop without its break: the last message with the context id
RECURSIVE PopFind_Last(_, _, _)
PopFind_Last(list, i, context_id) ==
  IF i > Len(list) THEN 0
  ELSE LET later == PopFind_Last(list, i + 1, context_id)
       IN  IF later # 0 THEN later
           ELSE IF list[i].context_id = context_id THEN i ELSE 0

\* the loop of gtk_statusbar_pop from link i: the position of the first
\* message with the context id, 0 when the end of the list is reached
RECURSIVE PopFind(_, _, _)
PopFind(list, i, context_id) ==
  IF i > Len(list) THEN 0
  ELSE IF list[i].context_id = context_id THEN i
  ELSE PopFind(list, i + 1, context_id)

\* gtk_statusbar_pop on the stack `list`: the stack it leaves ...
PopMessages(list, context_id) ==
  LET i == IF list # <<>> THEN PopFind(list, 1, context_id) ELSE 0
  IN  IF i # 0 THEN g_slist_remove_link(list, i) ELSE list

\* the signal of the other slot of statusbar_signals
PopEmission_Pushed(list) ==
  IF list # <<>>
    THEN Emission("text-pushed", list[1].context_id, Str(list[1].text), list)
    ELSE Emission("text-pushed", UINT_ZERO, NULL, list)

\* ... and, from that stack, the signal it emits
PopEmission(list) ==
  IF list # <<>>
    THEN Emission("text-popped", list[1].context_id, Str(list[1].text), list)
    ELSE Emission("text-popped", UINT_ZERO, NULL, list)

\* the topmost item not treated apart
RemoveTopmost_Never(list, context_id, message_id) == FALSE

\* gtk_statusbar_remove: is the topmost item the one to remove?
RemoveTopmost(list, context_id, message_id) ==
  /\ list # <<>>
  /\ list[1].context_id = context_id
  /\ list[1].message_id = message_id

\* the loop comparing the message id alone
RECURSIVE RemoveFind_AnyContext(_, _, _, _)
RemoveFind_AnyContext(list, i, context_id, message_id) ==
  IF i > Len(list) THEN 0
  ELSE IF list[i].message_id = message_id THEN i
  ELSE RemoveFind_AnyContext(list, i + 1, context_id, message_id)

\* the loop of gtk_statusbar_remove from link i
RECURSIVE RemoveFind(_, _, _, _)
RemoveFind(list, i, context_id, message_id) ==
  IF i > Len(list) THEN 0
  ELSE IF list[i].context_id = context_id /\ list[i].message_id = message_id THEN i
  ELSE RemoveFind(list, i + 1, context_id, message_id)

\* the loop stepping past the link that follows a removed one
RECURSIVE RemoveAllLoop_Skip(_, _, _)
RemoveAllLoop_Skip(kept, rest, context_id) ==
  IF rest = <<>> THEN kept
  ELSE IF rest[1].context_id = context_id
    THEN IF Tail(rest) = <<>> THEN kept
         ELSE RemoveAllLoop_Skip(Append(kept, rest[2]), Tail(Tail(rest)), context_id)
    ELSE RemoveAllLoop_Skip(Append(kept, rest[1]), Tail(rest), context_id)

\* the while loop of gtk_statusbar_remove_all: `kept` ends in prev, `rest`
\* begins at list
RECURSIVE RemoveAllLoop(_, _, _)
RemoveAllLoop(kept, rest, context_id) ==
  IF rest = <<>> THEN kept
  ELSE IF rest[1].context_id = context_id
    THEN RemoveAllLoop(kept, Tail(rest), context_id)
    ELSE RemoveAllLoop(Append(kept, rest[1]), Tail(rest), context_id)

-----------------------------------------------------------------------------
(* the calls *)

Call(op, context_id, message_id, text, description, ret) ==
  [op |-> op, context_id |-> context_id, message_id |-> message_id,
   text |-> text, description |-> description, ret |-> ret]

Fields == [messages |-> messages, seq_message_id |-> seq_message_id,
           label |-> label, keys |-> keys, seq_context_id |-> seq_context_id,
           object_data |-> object_data]

\* gtk_statusbar_init; the label of the template has no text
StatusbarInit(first_message_id) ==
  /\ messages = <<>>
  /\ seq_message_id = first_message_id
  /\ label = ""
  /\ keys = <<>>
  /\ seq_context_id = U(1)
  /\ object_data = {}
  /\ call = Call("new", UINT_ZERO, UINT_ZERO, NULL, NULL, UINT_ZERO)
  /\ pre = Fields
  /\ emitted = <<>>
  /\ ids_returned = <<>>

CanPush ==
  /\ Len(messages) < MaxMessages
  /\ \/ seq_message_id[1] = HALF - 1
     \/ seq_message_id[1] = 0 /\ seq_message_id[2] <= MaxPushes

\* gtk_statusbar_push (statusbar, context_id, text)
Push(context_id, text) ==
  /\ pre' = Fields
  /\ IF text = NULL
       THEN /\ call' = Call("push", context_id, UINT_ZERO, text, NULL, UINT_ZERO)
            /\ emitted' = <<>>
            /\ UNCHANGED <<messages, seq_message_id, label>>
       ELSE LET msg == gtk_statusbar_msg_create(context_id, text)
                list == g_slist_prepend(messages, msg)
            IN  /\ CanPush
                /\ seq_message_id' = UIntInc(seq_message_id)
                /\ messages' = list
                /\ emitted' = <<Emission("text-pushed", msg.context_id,
                                         Str(msg.text), list)>>
                /\ label' = gtk_statusbar_update(msg.context_id, Str(msg.text))
                /\ call' = Call("push", context_id, UINT_ZERO, text, NULL,
                                msg.message_id)
  /\ UNCHANGED <<keys, seq_context_id, object_data, ids_returned>>
  /\ UNCHANGED scvars

\* gtk_statusbar_pop (statusbar, context_id)
Pop(context_id) ==
  LET list == PopMessages(messages, context_id)
      e == PopEmission(list)
  IN  /\ pre' = Fields
      /\ messages' = list
      /\ emitted' = <<e>>
      /\ label' = gtk_statusbar_update(e.context_id, e.text)
      /\ call' = Call("pop", context_id, UINT_ZERO, NULL, NULL, UINT_ZERO)
      /\ UNCHANGED <<seq_message_id, keys, seq_context_id, object_data,
                     ids_returned>>
      /\ UNCHANGED scvars

\* gtk_statusbar_remove (statusbar, context_id, message_id)
Remove(context_id, message_id) ==
  LET popped == PopMessages(messages, context_id)
      e == PopEmission(popped)
      i == RemoveFind(messages, 1, context_id, message_id)
  IN  /\ pre' = Fields
      /\ call' = Call("remove", context_id, message_id, NULL, NULL, UINT_ZERO)
      /\ IF ~UIntPositive(message_id)
           THEN /\ emitted' = <<>>
                /\ UNCHANGED <<messages, label>>
           ELSE IF RemoveTopmost(messages, context_id, message_id)
             THEN /\ messages' = popped
                  /\ emitted' = <<e>>
                  /\ label' = gtk_statusbar_update(e.context_id, e.text)
             ELSE /\ messages' = IF i # 0 THEN g_slist_remove_link(messages, i)
                                          ELSE messages
                  /\ emitted' = <<>>
                  /\ UNCHANGED label
      /\ UNCHANGED <<seq_message_id, keys, seq_context_id, object_data,
                     ids_returned>>
      /\ UNCHANGED scvars

\* gtk_statusbar_remove_all (statusbar, context_id)
RemoveAll(context_id) ==
  LET looped == RemoveAllLoop(<<messages[1]>>, Tail(messages), context_id)
      popped == PopMessages(looped, context_id)
      e == PopEmission(popped)
  IN  /\ pre' = Fields
      /\ call' = Call("remove_all", context_id, UINT_ZERO, NULL, NULL, UINT_ZERO)
      /\ IF messages = <<>>
           THEN /\ emitted' = <<>>
                /\ UNCHANGED <<messages, label>>
           ELSE IF looped[1].context_id = context_id
             THEN /\ messages' = popped
                  /\ emitted' = <<e>>
                  /\ label' = gtk_statusbar_update(e.context_id, e.text)
             ELSE /\ messages' = looped
                  /\ emitted' = <<>>
                  /\ UNCHANGED label
      /\ UNCHANGED <<seq_message_id, keys, seq_context_id, object_data,
                     ids_returned>>
      /\ UNCHANGED scvars

\* gtk_statusbar_get_context_id (statusbar, context_description)
GetContextId(context_description) ==
  /\ Len(ids_returned) < MaxContextCalls
  /\ pre' = Fields
  /\ emitted' = <<>>
  /\ IF context_description = NULL
       THEN /\ call' = Call("get_context_id", UINT_ZERO, UINT_ZERO, NULL,
                            context_description, UINT_ZERO)
            /\ ids_returned' = Append(ids_returned,
                 [description |-> context_description, id |-> UINT_ZERO])
            /\ UNCHANGED <<seq_context_id, object_data, keys>>
       ELSE LET string == g_strconcat("gtk-status-bar-context:",
                                      context_description[1])
                found == g_object_get_data(object_data, string)
                id == IF found = UINT_ZERO THEN seq_context_id ELSE found
            IN  /\ IF found = UINT_ZERO
                     THEN /\ seq_context_id' = UIntInc(seq_context_id)
                          /\ object_data' =
                               g_object_set_data_full(object_data, string, id)
                          /\ keys' = g_slist_prepend(keys, string)
                     ELSE UNCHANGED <<seq_context_id, object_data, keys>>
                /\ call' = Call("get_context_id", UINT_ZERO, UINT_ZERO, NULL,
                                context_description, id)
                /\ ids_returned' = Append(ids_returned,
                     [description |-> context_description, id |-> id])
  /\ UNCHANGED <<messages, seq_message_id, label>>
  /\ UNCHANGED scvars

\* the message ids a caller passes to gtk_statusbar_remove: 0, the ids on the
\* stack and one id that is not on it
MessageIdArgs ==
  {UINT_ZERO, seq_message_id} \cup {messages[i].message_id : i \in DOMAIN messages}

-----------------------------------------------------------------------------
(* GtkColorScale *)

GTK_COLOR_SCALE_HUE == "hue"

GTK_COLOR_SCALE_ALPHA == "alpha"

\* the bounds of the trough sizes and the places and colours tried
MaxWidth == 3

MaxHeight == 7

Origins == {<<0, 0>>, <<2, 1>>}

\* GdkRGBA values, each channel 0 or 1
Colors == {[red |-> 1, green |-> 0, blue |-> 0, alpha |-> 1],
           [red |-> 0, green |-> 1, blue |-> 1, alpha |-> 0]}

\* what the caller has put into the snapshot before the trough
SnapshotsBefore == {<<>>, <<[node |-> "other"]>>}

GRAPHENE_RECT_INIT(x, y, width, height) == <<x, y, width, height>>

\* a byte of g_malloc'ed memory that nothing has been stored to
Uninitialised == 0 - 1

\* data[offset] = value
Store(offset, value) == <<offset, value>>

\* the g_malloc'ed block of n_bytes after the stores, made in order: what each
\* byte holds, and the offsets stored to outside the block
Stored(n_bytes, stores) ==
  [bytes |-> [i \in 1..n_bytes |->
                LET hits == {k \in DOMAIN stores : stores[k][1] = i - 1}
                IN  IF hits = {} THEN Uninitialised
                    ELSE stores[CHOOSE k \in hits : \A j \in hits : j <= k][2]],
   outside |-> {stores[k][1] : k \in {j \in DOMAIN stores :
                                        stores[j][1] < 0 \/ stores[j][1] >= n_bytes}}]

\* The doubles of the hue branch are kept as exact fractions.  h is the
\* fraction <<n, d>>; a colour component is <<n, kind>>, the value n/d that is
\* "exact" (the constants 0 and 1) or "computed" (the result of rounded
\* double arithmetic, which may fall short of n/d by less than any byte step).

\* f = 1.0 / (height - 1) with the divisor another
HueOfRow_PerHeight(hue_y, height) ==
  <<IF hue_y < 0 THEN 0 ELSE IF hue_y > height THEN height ELSE hue_y, height>>

\* f = 1.0 / (height - 1); h = CLAMP (hue_y * f, 0.0, 1.0)
HueOfRow(hue_y, height) ==
  <<IF hue_y < 0 THEN 0 ELSE IF hue_y > height - 1 THEN height - 1 ELSE hue_y,
    height - 1>>

\* h * 6.0 is a whole number above 0: the rounded product may fall on either
\* side of it
OnSextantBoundary(h) == (6 * h[1]) % h[2] = 0 /\ h[1] # 0

\* gtk_hsv_to_rgb (h, 1, 1, &r, &g, &b); `below` says that the rounded
\* h * 6.0 fell below the sextant boundary it is on
gtk_hsv_to_rgb(h, below) ==
  LET d == h[2]
      six == 6 * h[1]
      under == OnSextantBoundary(h) /\ below
      hue == IF under THEN (six \div d) - 1
             ELSE IF six = 6 * d THEN 0
             ELSE six \div d
      f == IF under THEN d ELSE six % d
      v == <<d, "exact">>
      p == <<0, "exact">>
      q == <<d - f, "computed">>
      t == <<f, "computed">>
  IN  CASE hue = 0 -> <<v, t, p>>
        [] hue = 1 -> <<q, v, p>>
        [] hue = 2 -> <<p, v, t>>
        [] hue = 3 -> <<p, q, v>>
        [] hue = 4 -> <<t, p, v>>
        [] hue = 5 -> <<v, p, q>>

\* does component * 255 stand exactly on a byte value above 0, so that the
\* rounding of a computed component decides between that value and the one
\* below it?
OnByteStep(component, d) ==
  /\ component[2] = "computed"
  /\ (component[1] * 255) % d = 0
  /\ component[1] > 0

\* (guchar) CLAMP (component * 255, 0, 255); `short` says that the computed
\* component fell short of its exact value
ToByte(component, d, short) ==
  LET byte == (component[1] * 255) \div d
      stored == IF OnByteStep(component, d) /\ short THEN byte - 1 ELSE byte
  IN  IF stored < 0 THEN 0 ELSE IF stored > 255 THEN 255 ELSE stored

\* the roundings a build can produce for the row of hue h
Roundings(h) ==
  LET sides == IF OnSextantBoundary(h) THEN BOOLEAN ELSE {FALSE}
  IN  {ro \in [below : sides, short : BOOLEAN] :
         ro.short => \E k \in 1..3 :
                       OnByteStep(gtk_hsv_to_rgb(h, ro.below)[k], h[2])}

\* the roundings of the rows hue_y .. height-1, one choice a row
RECURSIVE RowRoundings(_, _)
RowRoundings(hue_y, height) ==
  IF hue_y >= height THEN {<<>>}
  ELSE {<<ro>> \o rest : ro \in Roundings(HueOfRow(hue_y, height)),
                         rest \in RowRoundings(hue_y + 1, height)}

\* stride = width * 3
Stride(width) == width * 3

\* the inner loop from hue_x on, for (hue_x = 0; hue_x < stride; hue_x += 3):
\* its stores, in order
RECURSIVE HueColumns(_, _, _, _, _)
HueColumns(p, hue_x, stride, h, ro) ==
  IF hue_x < stride
    THEN LET rgb == gtk_hsv_to_rgb(h, ro.below)
         IN  << Store(p + hue_x + 0, ToByte(rgb[1], h[2], ro.short)),
                Store(p + hue_x + 1, ToByte(rgb[2], h[2], ro.short)),
                Store(p + hue_x + 2, ToByte(rgb[3], h[2], ro.short)) >>
             \o HueColumns(p, hue_x + 3, stride, h, ro)
    ELSE <<>>

\* the outer loop from hue_y on, for (hue_y = 0; hue_y < height; hue_y++):
\* its stores, in order
RECURSIVE HueRows(_, _, _, _)
HueRows(hue_y, height, stride, roundings) ==
  IF hue_y < height
    THEN HueColumns(hue_y * stride, 0, stride, HueOfRow(hue_y, height),
                    roundings[hue_y + 1])
         \o HueRows(hue_y + 1, height, stride, roundings)
    ELSE <<>>

\* the hue branch: the buffer after the loops and the texture made of it
HueTexture(x, y, width, height, roundings) ==
  LET stride == Stride(width)
      data == Stored(width * height * 3, HueRows(0, height, stride, roundings))
  IN  [node |-> "texture",
       bounds |-> GRAPHENE_RECT_INIT(x, y, width, height),
       width |-> width, height |-> height, format |-> "GDK_MEMORY_R8G8B8",
       stride |-> stride, bytes |-> data.bytes, outside |-> data.outside]

\* the direction alone, whatever the orientation
Mirrored_AnyOrientation == direction = "GTK_TEXT_DIR_RTL"

\* is the gradient mirrored?
Mirrored ==
  orientation = "GTK_ORIENTATION_HORIZONTAL" /\ direction = "GTK_TEXT_DIR_RTL"

\* the alpha branch: the cairo node with the checkered background, and the
\* linear gradient
AlphaNodes(x, y, width, height) ==
  LET flip == IF Mirrored
                THEN << <<"translate", width, 0>>, <<"scale", 0 - 1, 1>> >>
                ELSE << >>
      start == IF Mirrored THEN <<x + width, y>> ELSE <<x, y>>
      end == IF Mirrored THEN <<x, y>> ELSE <<x + width, y>>
  IN  << [node |-> "cairo",
          bounds |-> GRAPHENE_RECT_INIT(x, y, width, height),
          drawn |-> << <<"translate", x, y>> >> \o flip \o
                    << <<"set_source_rgb", "0.33", "0.33", "0.33">>,
                       <<"paint">>,
                       <<"set_source_rgb", "0.66", "0.66", "0.66">>,
                       <<"pattern_set_matrix", "checkered", "0.125", "0.125">>,
                       <<"mask", "checkered">> >>],
         [node |-> "linear_gradient",
          bounds |-> GRAPHENE_RECT_INIT(x, y, width, height),
          start |-> start, end |-> end,
          stops |-> << [offset |-> 0,
                        color |-> [red |-> color.red, green |-> color.green,
                                   blue |-> color.blue, alpha |-> 0]],
                       [offset |-> 1,
                        color |-> [red |-> color.red, green |-> color.green,
                                   blue |-> color.blue, alpha |-> 1]] >>] >>

Trough(called, x, y, width, height, before) ==
  [called |-> called, x |-> x, y |-> y, width |-> width, height |-> height,
   before |-> before]

\* gtk_color_scale_init and the construct-only scale-type; the colour starts
\* as the zeroed private struct
ScaleInit(type, o, d) ==
  /\ scale_type = type
  /\ color = [red |-> 0, green |-> 0, blue |-> 0, alpha |-> 0]
  /\ orientation = o
  /\ direction = d
  /\ snapshot = <<>>
  /\ trough = Trough(FALSE, 0, 0, 0, 0, <<>>)

\* gtk_color_scale_snapshot_trough (scale, snapshot, x, y, width, height), the
\* snapshot holding the nodes `before`.  The call reads the scale's type,
\* colour, orientation and direction and nothing that an earlier call wrote,
\* so a behaviour makes one call, after any number of gtk_color_scale_set_rgba.
SnapshotTrough(before, x, y, width, height) ==
  /\ ~trough.called
  /\ trough' = Trough(TRUE, x, y, width, height, before)
  /\ IF width <= 1 \/ height <= 1
       THEN snapshot' = before
       ELSE IF scale_type = GTK_COLOR_SCALE_HUE
         THEN \E roundings \in RowRoundings(0, height) :
                snapshot' = Append(before,
                                   HueTexture(x, y, width, height, roundings))
         ELSE IF scale_type = GTK_COLOR_SCALE_ALPHA
           THEN snapshot' = before \o AlphaNodes(x, y, width, height)
           ELSE snapshot' = before
  /\ UNCHANGED <<scale_type, color, orientation, direction>>
  /\ UNCHANGED sbvars

\* gtk_color_scale_set_rgba (scale, color)
SetRgba(c) ==
  /\ color' = c
  /\ UNCHANGED <<scale_type, orientation, direction, snapshot, trough>>
  /\ UNCHANGED sbvars

InitScale ==
  /\ StatusbarInit(U(1))
  /\ \E type \in {GTK_COLOR_SCALE_HUE, GTK_COLOR_SCALE_ALPHA},
        o \in {"GTK_ORIENTATION_HORIZONTAL", "GTK_ORIENTATION_VERTICAL"},
        d \in {"GTK_TEXT_DIR_LTR", "GTK_TEXT_DIR_RTL"} :
       ScaleInit(type, o, d)

NextScale ==
  \/ \E before \in SnapshotsBefore, at \in Origins,
        width \in 0..MaxWidth, height \in 0..MaxHeight :
       SnapshotTrough(before, at[1], at[2], width, height)
  \/ \E c \in Colors : SetRgba(c)

SpecScale == InitScale /\ [][NextScale]_vars

-----------------------------------------------------------------------------
(* the specifications *)

Init ==
  /\ \E first \in SeqMessageIdStarts : StatusbarInit(first)
  /\ ScaleInit(GTK_COLOR_SCALE_HUE, "GTK_ORIENTATION_HORIZONTAL",
               "GTK_TEXT_DIR_LTR")

Next ==
  \/ \E c \in ContextIds, t \in TextArgs : Push(c, t)
  \/ \E c \in ContextIds : Pop(c)
  \/ \E c \in ContextIds, m \in MessageIdArgs : Remove(c, m)
  \/ \E c \in ContextIds : RemoveAll(c)

Spec == Init /\ [][Next]_vars

NextContext == \E d \in DescriptionArgs : GetContextId(d)

SpecContext == Init /\ [][NextContext]_vars

-----------------------------------------------------------------------------
(* properties of the message stack, under Spec *)

IsPushed == call.op = "push" /\ call.text # NULL

\* the positions of the stack `list` holding context id c and message id m
Holding(list, c, m) ==
  {i \in DOMAIN list : list[i].context_id = c /\ list[i].message_id = m}

\* the positions of the stack `list` holding context id c
OfContext(list, c) == {i \in DOMAIN list : list[i].context_id = c}

\* `list` without position i, stated position by position
Without(list, i) ==
  [k \in 1..(Len(list) - 1) |-> IF k < i THEN list[k] ELSE list[k + 1]]

\* the messages of `list` whose context id differs from c, in order
Others(list, c) ==
  LET Differs(msg) == msg.context_id # c IN SelectSeq(list, Differs)

\* C1: after any sequence of push, pop, remove and remove_all the label shows
\* the text of the message at the top of the stack, and the empty string when
\* the stack is empty.
C1_LabelShowsTop ==
  label = IF messages = <<>> THEN "" ELSE messages[1].text

\* gtk_statusbar_remove took the top message away and the label changed to
\* the text of the message below it
C1_Witness ==
  /\ call.op = "remove"
  /\ Len(pre.messages) >= 2
  /\ Len(messages) = Len(pre.messages) - 1
  /\ pre.messages[1].message_id = call.message_id
  /\ label # pre.label
  /\ label = pre.messages[2].text

\* C2: a push with non-NULL text puts exactly one message on the top, holding
\* the given context id, the text and the returned message id; the messages
\* that were on the stack stay below it, unchanged and in order.
C2_PushAddsOne ==
  IsPushed =>
    /\ Len(messages) = Len(pre.messages) + 1
    /\ messages[1] = [text |-> call.text[1], context_id |-> call.context_id,
                      message_id |-> call.ret]
    /\ \A i \in DOMAIN pre.messages : messages[i + 1] = pre.messages[i]

\* a push with context id 0, which gtk_statusbar_get_context_id never hands
\* out, onto a stack of two messages
C2_Witness ==
  /\ IsPushed
  /\ call.context_id = UINT_ZERO
  /\ Len(pre.messages) = 2
  /\ Len(messages) = 3

\* C3: pop removes exactly one message, the one nearest the top with the
\* given context id, when there is one; otherwise the stack is unchanged.
C3_PopRemovesNearestTop ==
  call.op = "pop" =>
    LET S == OfContext(pre.messages, call.context_id)
    IN  IF S = {}
          THEN messages = pre.messages
          ELSE \E i \in S :
                 /\ \A j \in S : i <= j
                 /\ messages = Without(pre.messages, i)

\* a pop that passed over the top message and removed the upper of two
\* messages of its context
C3_Witness ==
  /\ call.op = "pop"
  /\ Len(pre.messages) = 3
  /\ pre.messages[1].context_id # call.context_id
  /\ pre.messages[2].context_id = call.context_id
  /\ pre.messages[3].context_id = call.context_id
  /\ messages = <<pre.messages[1], pre.messages[3]>>

\* C4: remove(c, m) of a message on the stack that was pushed with context c
\* and for which push returned m removes that message and no other; when no
\* message holds both c and m, the stack and the label are unchanged.
C4_RemoveRemovesThatMessage ==
  call.op = "remove" =>
    LET S == Holding(pre.messages, call.context_id, call.message_id)
    IN  IF S = {}
          THEN messages = pre.messages /\ label = pre.label
          ELSE \E i \in S : messages = Without(pre.messages, i)

\* C5: after remove_all(c) no message with context id c is on the stack.
C5_RemoveAllLeavesNone ==
  call.op = "remove_all" => OfContext(messages, call.context_id) = {}

\* a remove_all whose context held the top, the middle and the bottom of the
\* stack, a run of adjacent messages that was all of it
C5_Witness ==
  /\ call.op = "remove_all"
  /\ Len(pre.messages) = 3
  /\ OfContext(pre.messages, call.context_id) = {1, 2, 3}
  /\ messages = <<>>

\* C6: pop(c), remove(c, m) and remove_all(c) leave the messages of the other
\* contexts unchanged in content, ids and relative order.
C6_OtherContextsUntouched ==
  call.op \in {"pop", "remove", "remove_all"} =>
    Others(messages, call.context_id) = Others(pre.messages, call.context_id)

\* a remove that took a message from between two messages of another context
C6_Witness ==
  /\ call.op = "remove"
  /\ Len(pre.messages) = 3
  /\ OfContext(pre.messages, call.context_id) = {2}
  /\ messages = <<pre.messages[1], pre.messages[3]>>

\* C9: every successful push emits text-pushed exactly once, with the message
\* already on the stack and with its context id and text; nothing else emits
\* text-pushed.
C9_TextPushedOncePerPush ==
  IF IsPushed
    THEN /\ Len(emitted) = 1
         /\ emitted[1].signal = "text-pushed"
         /\ emitted[1].context_id = call.context_id
         /\ emitted[1].text = call.text
         /\ emitted[1].stack # <<>>
         /\ emitted[1].stack[1] = [text |-> call.text[1],
                                   context_id |-> call.context_id,
                                   message_id |-> call.ret]
         /\ Tail(emitted[1].stack) = pre.messages
    ELSE \A k \in DOMAIN emitted : emitted[k].signal # "text-pushed"

\* a push of the empty text onto a stack of one message, and its signal
C9_Witness ==
  /\ IsPushed
  /\ call.text = Str("")
  /\ Len(pre.messages) = 1
  /\ Len(emitted) = 1
  /\ emitted[1].signal = "text-pushed"

-----------------------------------------------------------------------------
(* properties of the context ids, under SpecContext *)

Registered(i) == ids_returned[i].description # NULL

C8_ContextIdsIdentifyDescriptions ==
  /\ \A i, j \in DOMAIN ids_returned :
       Registered(i) /\ Registered(j) =>
         (ids_returned[i].id = ids_returned[j].id
            <=> ids_returned[i].description = ids_returned[j].description)
  /\ \A i \in DOMAIN ids_returned :
       Registered(i) => UIntPositive(ids_returned[i].id)
  /\ (/\ call.op = "get_context_id"
      /\ call.description # NULL
      /\ \E i \in 1..(Len(ids_returned) - 1) :
           ids_returned[i].description = call.description)
     => /\ seq_context_id = pre.seq_context_id
        /\ keys = pre.keys
        /\ object_data = pre.object_data

\* the empty description asked for again after two descriptions were
\* registered: both keys stay, the next id stays
C8_Witness ==
  /\ call.op = "get_context_id"
  /\ call.description = Str("")
  /\ Len(keys) = 2
  /\ keys = pre.keys
  /\ seq_context_id = U(3)
  /\ call.ret \in {U(1), U(2)}

-----------------------------------------------------------------------------
(* properties of the colour scale's trough, under SpecScale *)

IsHueTrough ==
  /\ trough.called
  /\ scale_type = GTK_COLOR_SCALE_HUE
  /\ trough.width > 1
  /\ trough.height > 1

\* the pixel of row r and column c of a texture node, read with its stride
Pixel(node, r, c) ==
  << node.bytes[r * node.stride + 3 * c + 1],
     node.bytes[r * node.stride + 3 * c + 2],
     node.bytes[r * node.stride + 3 * c + 3] >>

Clamp(v, lo, hi) == IF v < lo THEN lo ELSE IF v > hi THEN hi ELSE v

Abs(v) == IF v < 0 THEN 0 - v ELSE v

\* the colour of hue n/d at full saturation and value, as <<r, g, b>> in
\* units of 1/d: r = |6h - 3| - 1, g = 2 - |6h - 2|, b = 2 - |6h - 4|, each
\* cut to 0..1
PureHue(n, d) ==
  << Clamp(Abs(6 * n - 3 * d) - d, 0, d),
     Clamp(2 * d - Abs(6 * n - 2 * d), 0, d),
     Clamp(2 * d - Abs(6 * n - 4 * d), 0, d) >>

\* byte is 255 * n/d cut to a whole number, or one less where the double
\* arithmetic fell short of a whole number
IsByteOf(byte, n, d) ==
  /\ byte \in 0..255
  /\ byte * d <= 255 * n
  /\ 255 * n - byte * d <= d

\* C10: for a HUE scale and width > 1, height > 1 the call appends exactly one
\* texture of width x height RGB pixels over (x, y, width, height); the
\* pixels of a row are identical, row r has the fully saturated, full-value
\* colour of hue r/(height-1), rows 0 and height-1 are the red of hue 0 and
\* of hue 1, and no byte is stored outside the width*height*3-byte buffer.
C10_HueTexture ==
  IsHueTrough =>
    /\ Len(snapshot) = Len(trough.before) + 1
    /\ SubSeq(snapshot, 1, Len(trough.before)) = trough.before
    /\ LET node == snapshot[Len(snapshot)]
           w == trough.width
           h == trough.height
       IN  /\ node.node = "texture"
           /\ node.bounds = <<trough.x, trough.y, w, h>>
           /\ node.width = w /\ node.height = h
           /\ node.format = "GDK_MEMORY_R8G8B8"
           /\ Len(node.bytes) = w * h * 3
           /\ node.outside = {}
           /\ \A r \in 0..(h - 1) :
                /\ \A c \in 0..(w - 1) : Pixel(node, r, c) = Pixel(node, r, 0)
                /\ \A k \in 1..3 :
                     IsByteOf(Pixel(node, r, 0)[k], PureHue(r, h - 1)[k], h - 1)
           /\ Pixel(node, 0, 0) = <<255, 0, 0>>
           /\ Pixel(node, h - 1, 0) = <<255, 0, 0>>

\* a hue trough 3 wide and 6 high at (2, 1), drawn after another node: row 1
\* has hue 1/5, whose red of 0.8 the doubles store as 203
C10_Witness ==
  /\ IsHueTrough
  /\ trough.width = 3 /\ trough.height = 6
  /\ trough.x = 2 /\ trough.y = 1
  /\ Len(trough.before) = 1
  /\ Len(snapshot) = 2
  /\ Pixel(snapshot[2], 1, 2) = <<203, 255, 0>>
  /\ Pixel(snapshot[2], 3, 0) = <<0, 101, 255>>

IsAlphaTroughCall ==
  /\ ~trough.called
  /\ trough'.called
  /\ scale_type = GTK_COLOR_SCALE_ALPHA
  /\ trough'.width > 1
  /\ trough'.height > 1

\* the colour c with its alpha replaced by a
WithAlpha(c, a) ==
  [red |-> c.red, green |-> c.green, blue |-> c.blue, alpha |-> a]

\* C11: for an ALPHA scale and width > 1, height > 1 the call appends a
\* checkered background node and then a linear gradient over
\* (x, y, width, height) with exactly two stops, offset 0 with the colour the
\* scale has at the call at alpha 0 and offset 1 with that colour at alpha 1;
\* the gradient runs from (x+width, y) to (x, y) if and only if the
\* orientation is horizontal and the direction RTL, and from (x, y) to
\* (x+width, y) in every other case.
C11_AlphaGradient ==
  [][IsAlphaTroughCall =>
       LET t == trough'
           n == Len(t.before)
           rect == <<t.x, t.y, t.width, t.height>>
           rtl == /\ orientation = "GTK_ORIENTATION_HORIZONTAL"
                  /\ direction = "GTK_TEXT_DIR_RTL"
       IN  /\ Len(snapshot') = n + 2
           /\ SubSeq(snapshot', 1, n) = t.before
           /\ LET background == snapshot'[n + 1]
              IN  /\ background.node = "cairo"
                  /\ background.bounds = rect
                  /\ background.drawn[Len(background.drawn)]
                       = <<"mask", "checkered">>
           /\ LET gradient == snapshot'[n + 2]
              IN  /\ gradient.node = "linear_gradient"
                  /\ gradient.bounds = rect
                  /\ Len(gradient.stops) = 2
                  /\ gradient.stops[1] =
                       [offset |-> 0, color |-> WithAlpha(color, 0)]
                  /\ gradient.stops[2] =
                       [offset |-> 1, color |-> WithAlpha(color, 1)]
                  /\ IF rtl
                       THEN /\ gradient.start = <<t.x + t.width, t.y>>
                            /\ gradient.end = <<t.x, t.y>>
                       ELSE /\ gradient.start = <<t.x, t.y>>
                            /\ gradient.end = <<t.x + t.width, t.y>>
    ]_vars

\* the trough of a horizontal RTL alpha scale, 3 wide and 2 high at (2, 1),
\* drawn after another node and after the colour was set to one of alpha 0:
\* the gradient runs from (5, 1) to (2, 1) and ends in that colour at alpha 1
C11_Witness ==
  /\ trough.called
  /\ scale_type = GTK_COLOR_SCALE_ALPHA
  /\ orientation = "GTK_ORIENTATION_HORIZONTAL"
  /\ direction = "GTK_TEXT_DIR_RTL"
  /\ trough.width = 3 /\ trough.height = 2
  /\ trough.x = 2 /\ trough.y = 1
  /\ Len(trough.before) = 1
  /\ Len(snapshot) = 3
  /\ color = [red |-> 0, green |-> 1, blue |-> 1, alpha |-> 0]
  /\ snapshot[2].node = "cairo"
  /\ snapshot[3].node = "linear_gradient"
  /\ snapshot[3].start = <<5, 1>>
  /\ snapshot[3].end = <<2, 1>>
  /\ snapshot[3].stops[2].color = WithAlpha(color, 1)

=============================================================================
